---- MODULE Spec2Model ----
(***************************************************************************)
(* The filter pipeline of scrapelect (src/interpreter/filter.rs and the    *)
(* filter-proc-macro crate): values, coercion, the generated argument       *)
(* deserializer, the dynamic adapter, the lazily built registry and the    *)
(* builtin filters, driven by evaluator threads that call dispatch_filter. *)
(***************************************************************************)
EXTENDS Integers, Sequences, FiniteSets, TLC

(* ---------------------------------------------------------------- values *)
\* Value<'doc>: a tagged union.  A String payload is a tuple of one-character
\* strings, so that trim and parse work on the text itself.
Val(tag, v) == [tag |-> tag, v |-> v]
VNull == Val("Null", <<>>)
VInt(n) == Val("Int", n)
\* A Float payload is the number in tenths (39 is 3.9).
VFloat(tenths) == Val("Float", tenths)
VString(s) == Val("String", s)
VList(l) == Val("List", l)
VStructure(m) == Val("Structure", m)
VElement(e) == Val("Element", e)

\* anyhow::Result: Ok(value) or Err(error); a panic unwinds out of the call.
Ok(x) == [res |-> "Ok", val |-> x]
Err(kind, x) == [res |-> "Err", val |-> [err |-> kind, info |-> x]]
Panic(why) == [res |-> "Panic", val |-> why]
IsOk(r) == r.res = "Ok"
IsErr(r) == r.res = "Err"
ErrKind(r) == IF r.res = "Err" THEN r.val.err ELSE "none"

(* ---------------------------------------------------------------- bounds *)
\* Width of the machine integers (i64 and usize), scaled down.
Bits == 7
\* Longest list handed to nth.
MaxLen == 3
\* Most entries of one named-argument map.
MaxArgs == 2

Pow2(n) == 2 ^ n
I64Min == 0 - Pow2(Bits - 1)
I64Max == Pow2(Bits - 1) - 1
UsizeModulus == Pow2(Bits)

(* --------------------------------------------------------------- strings *)
\* Characters in byte order.
Alphabet == <<" ", "+", "-", ".", "0", "1", "2", "3", "4", "5", "6", "7", "8", "9",
              "a", "b", "c", "h", "i">>
CharRank(c) == CHOOSE k \in 1..Len(Alphabet) : Alphabet[k] = c
Digits == {"0", "1", "2", "3", "4", "5", "6", "7", "8", "9"}
DigitVal(c) == CharRank(c) - CharRank("0")
IsWhitespace(c) == c = " "

\* Ord for str: byte-wise lexicographic, a proper prefix first.
RECURSIVE StrLess(_, _)
StrLess(a, b) ==
    IF b = <<>> THEN FALSE
    ELSE IF a = <<>> THEN TRUE
    ELSE IF Head(a) = Head(b) THEN StrLess(Tail(a), Tail(b))
    ELSE CharRank(Head(a)) < CharRank(Head(b))

\* str::trim
RECURSIVE TrimStart(_)
TrimStart(s) ==
    IF s # <<>> /\ IsWhitespace(Head(s)) THEN TrimStart(Tail(s)) ELSE s
RECURSIVE TrimEnd(_)
TrimEnd(s) ==
    IF s # <<>> /\ IsWhitespace(s[Len(s)]) THEN TrimEnd(SubSeq(s, 1, Len(s) - 1)) ELSE s
Trim(s) == TrimEnd(TrimStart(s))

\* <i64 as FromStr>::from_str: an optional sign, then one or more decimal
\* digits, accumulated with a checked multiply-and-add; nothing else.
RECURSIVE ParseDigits(_, _, _)
ParseDigits(s, acc, neg) ==
    IF s = <<>> THEN Ok(acc)
    ELSE IF Head(s) \notin Digits THEN Err("InvalidDigit", <<>>)
    ELSE LET n == IF neg THEN acc * 10 - DigitVal(Head(s))
                  ELSE acc * 10 + DigitVal(Head(s))
         IN IF n < I64Min THEN Err("NegOverflow", <<>>)
            ELSE IF n > I64Max THEN Err("PosOverflow", <<>>)
            ELSE ParseDigits(Tail(s), n, neg)
ParseI64(s) ==
    IF s = <<>> THEN Err("Empty", <<>>)
    ELSE IF Head(s) \in {"+", "-"}
         THEN IF Tail(s) = <<>> THEN Err("InvalidDigit", <<>>)
              ELSE ParseDigits(Tail(s), 0, Head(s) = "-")
    ELSE ParseDigits(s, 0, FALSE)

\* <f64 as FromStr>::from_str on the alphabet above: an optional sign, digits
\* with at most one point and at least one digit; the value is kept in tenths.
RECURSIVE ParseFrac(_, _, _)
ParseFrac(s, acc, first) ==
    IF s = <<>> THEN Ok(acc)
    ELSE IF Head(s) \notin Digits THEN Err("InvalidFloat", <<>>)
    ELSE ParseFrac(Tail(s), IF first THEN acc + DigitVal(Head(s)) ELSE acc, FALSE)
RECURSIVE ParseWhole(_, _, _)
ParseWhole(s, acc, seen) ==
    IF s = <<>> THEN IF seen THEN Ok(acc * 10) ELSE Err("InvalidFloat", <<>>)
    ELSE IF Head(s) = "."
         THEN IF ~seen /\ Tail(s) = <<>> THEN Err("InvalidFloat", <<>>)
              ELSE ParseFrac(Tail(s), acc * 10, TRUE)
    ELSE IF Head(s) \notin Digits THEN Err("InvalidFloat", <<>>)
    ELSE ParseWhole(Tail(s), acc * 10 + DigitVal(Head(s)), TRUE)
ParseF64(s) ==
    IF s = <<>> THEN Err("InvalidFloat", <<>>)
    ELSE IF Head(s) \in {"+", "-"}
         THEN LET r == ParseWhole(Tail(s), 0, FALSE)
              IN IF IsOk(r) /\ Head(s) = "-" THEN Ok(0 - r.val) ELSE r
    ELSE ParseWhole(s, 0, FALSE)

\* `x as i64` on a float: truncation toward zero, saturating at the ends.
FloatAsI64(tenths) ==
    LET q == IF tenths >= 0 THEN tenths \div 10 ELSE 0 - ((0 - tenths) \div 10)
    IN IF q < I64Min THEN I64Min ELSE IF q > I64Max THEN I64Max ELSE q
\* `n as f64`
I64AsFloat(n) == n * 10

(* ------------------------------------------------------------- collections *)
\* BTreeMap insert.
Put(m, k, x) == [y \in (DOMAIN m) \cup {k} |-> IF y = k THEN x ELSE m[y]]
\* BTreeMap remove.
Remove(m, k) == [y \in (DOMAIN m) \ {k} |-> m[y]]
EmptyMap == <<>>
\* The keys of a BTreeMap<Arc<str>, _> in iteration (ascending) order.
RECURSIVE SortedKeys(_)
SortedKeys(S) ==
    IF S = {} THEN <<>>
    ELSE LET least == CHOOSE k \in S : \A o \in S \ {k} : StrLess(k, o)
         IN <<least>> \o SortedKeys(S \ {least})
\* Iterator::map(..).collect::<Vec<_>>(): f, a function on the items of s,
\* applied item by item.
MapSeq(f, s) == [k \in 1..Len(s) |-> f[s[k]]]

(* ---------------------------------------------------------------- coercion *)
\* Coercion targets: the type a filter declares for its value or a parameter.
Prim(t) == <<"Prim", t>>
Or(a, b) == <<"Or", a, b>>
TagOf(t) ==
    CASE t = "Arc<str>" -> "String"
      [] t = "i64" -> "Int"
      [] t = "f64" -> "Float"
      [] t = "Vec<Value>" -> "List"
      [] t = "Structure" -> "Structure"
      [] t = "ElementRef" -> "Element"

\* TryFromValue::try_from_value: a tag match for each primitive target, the
\* value itself for Value, and for Or<A, B> the first alternative that
\* succeeds, A before B, failing with the error of the last one tried.
RECURSIVE TryFromValue(_, _)
TryFromValue(target, value) ==
    IF target[1] = "Or"
    THEN LET ra == TryFromValue(target[2], value)
         IN IF IsOk(ra) THEN Ok([alt |-> "A", x |-> ra.val])
            ELSE LET rb == TryFromValue(target[3], value)
                 IN IF IsOk(rb) THEN Ok([alt |-> "B", x |-> rb.val]) ELSE rb
    ELSE IF target[2] = "Value" THEN Ok(value)
    ELSE IF value.tag = TagOf(target[2]) THEN Ok(value.v)
    ELSE Err("TypeMismatch", <<target[2], value.tag>>)

\* Option<Value>: None is <<>>, Some(x) is <<x>>.
None == <<>>
Some(x) == <<x>>

\* TryFromValue::try_from_option_value.  It is handed the removed entry alone:
\* an absent entry is None for an optional parameter and an error otherwise.
TryFromOptionValue(field, opt) ==
    IF opt = None
    THEN IF field.optional THEN Ok(None) ELSE Err("MissingArgument", <<>>)
    ELSE LET r == TryFromValue(field.ty, opt[1])
         IN IF IsOk(r) /\ field.optional THEN Ok(Some(r.val)) ELSE r

(* ------------------------------------------------------ argument structs *)
\* One field of the Args struct that filter_fn generates.
Field(name, ty, optional) == [name |-> name, ty |-> ty, optional |-> optional, marker |-> FALSE]
MarkerField == [name |-> "_marker", ty |-> Prim("Value"), optional |-> FALSE, marker |-> TRUE]

\* #[filter_fn]: the value type, the Args struct (the marker, then every
\* parameter that is neither `value` nor `ctx`, in order) of each filter.
FilterValueType(f) ==
    CASE f \in {"id", "dbg", "tee"} -> Prim("Value")
      [] f = "strip" -> Prim("Arc<str>")
      [] f = "attrs" -> Prim("ElementRef")
      [] f \in {"take", "keys", "values", "entries"} -> Prim("Structure")
      [] f = "int" -> Or(Prim("i64"), Or(Prim("f64"), Prim("Arc<str>")))
      [] f = "float" -> Or(Prim("f64"), Or(Prim("i64"), Prim("Arc<str>")))
      [] f \in {"nth", "from_entries"} -> Prim("Vec<Value>")
FilterParams(f) ==
    CASE f = "dbg" -> <<Field("msg", Prim("Arc<str>"), TRUE)>>
      [] f = "tee" -> <<Field("into", Prim("Arc<str>"), FALSE)>>
      [] f = "take" -> <<Field("key", Prim("Arc<str>"), FALSE)>>
      [] f = "nth" -> <<Field("i", Prim("i64"), FALSE)>>
      [] OTHER -> <<>>
ArgsFields(f) == <<MarkerField>> \o FilterParams(f)

\* #[derive(Args)]: field_extract, the fields that are not markers.
NotMarker(field) == ~field.marker
FieldExtract(fields) == SelectSeq(fields, NotMarker)

\* The generated try_deserialize: each extracted field in declaration order
\* is removed from the map and converted, the first failure returning at
\* once; what is left in the map afterwards is reported as a whole.
RECURSIVE ExtractFields(_, _, _)
ExtractFields(fields, args, acc) ==
    IF fields = <<>>
    THEN IF DOMAIN args # {} THEN Err("UnexpectedArguments", args) ELSE Ok(acc)
    ELSE LET f == Head(fields)
             opt == IF f.name \in DOMAIN args THEN Some(args[f.name]) ELSE None
             r == TryFromOptionValue(f, opt)
         IN IF ~IsOk(r) THEN r
            ELSE ExtractFields(Tail(fields), Remove(args, f.name), Put(acc, f.name, r.val))
TryDeserialize(fields, args) == ExtractFields(FieldExtract(fields), args, EmptyMap)

\* impl Args for (): any entry at all is unexpected.
UnitTryDeserialize(args) ==
    IF DOMAIN args # {} THEN Err("UnexpectedArguments", args) ELSE Ok(EmptyMap)

(* ------------------------------------------------------------------ context *)
\* ElementContext: the variables bound so far, by name.
\* set_var either binds the name or fails and binds nothing.
SetVar(vars, name, value, bound) ==
    IF bound THEN [result |-> Ok(<<>>), ctx |-> Put(vars, name, value)]
    ELSE [result |-> Err("ContextBindingFailure", name), ctx |-> vars]

\* The attributes of the document's elements, in source order.
ElementAttrs(e) ==
    CASE e = 1 -> << <<(<<"i", "c">>), (<<"a">>)>>, <<(<<"c", "h">>), (<<"b", " ">>)>> >>
      [] OTHER -> <<>>

(* ------------------------------------------------------------------ filters *)
\* What one filter body leaves behind: its result, the context, and the
\* lines it wrote to the diagnostic output.
Outcome(result, vars, lines) == [result |-> result, ctx |-> vars, diag |-> lines]

id(value, vars) == Outcome(Ok(value), vars, <<>>)

DefaultDbgMessage == <<"d", "b", "g">>
dbg(value, msg, vars) ==
    Outcome(Ok(value), vars, << <<value, IF msg = None THEN DefaultDbgMessage ELSE msg[1]>> >>)

\* A tee that keeps only the variable it binds.
teeClobbers(value, into, vars, bound) ==
    LET s == SetVar(EmptyMap, into, value, bound)
    IN IF IsOk(s.result) THEN Outcome(Ok(value), s.ctx, <<>>)
       ELSE Outcome(s.result, vars, <<>>)
tee(value, into, vars, bound) ==
    LET s == SetVar(vars, into, value, bound)
    IN IF IsOk(s.result) THEN Outcome(Ok(value), s.ctx, <<>>)
       ELSE Outcome(s.result, s.ctx, <<>>)

strip(value, vars) == Outcome(Ok(VString(Trim(value))), vars, <<>>)

RECURSIVE CollectPairs(_, _)
CollectPairs(pairs, acc) ==
    IF pairs = <<>> THEN acc
    ELSE CollectPairs(Tail(pairs), Put(acc, Head(pairs)[1], VString(Head(pairs)[2])))
attrs(value, vars) ==
    Outcome(Ok(VStructure(CollectPairs(ElementAttrs(value), EmptyMap))), vars, <<>>)

take(value, key, vars) ==
    Outcome(Ok(IF key \in DOMAIN value THEN value[key] ELSE VNull), vars, <<>>)

\* An int that sends the first alternative through the float cast.
intCastsFirst(value, vars) ==
    LET n == IF value.alt = "A" THEN Ok(FloatAsI64(value.x))
             ELSE IF value.x.alt = "A" THEN Ok(FloatAsI64(value.x.x))
             ELSE LET r == ParseI64(value.x.x)
                  IN IF IsOk(r) THEN r ELSE Err("ParseFailure", <<value.x.x, "integer">>)
    IN Outcome(IF IsOk(n) THEN Ok(VInt(n.val)) ELSE n, vars, <<>>)
int(value, vars) ==
    LET n == IF value.alt = "A" THEN Ok(value.x)
             ELSE IF value.x.alt = "A" THEN Ok(FloatAsI64(value.x.x))
             ELSE LET r == ParseI64(value.x.x)
                  IN IF IsOk(r) THEN r ELSE Err("ParseFailure", <<value.x.x, "integer">>)
    IN Outcome(IF IsOk(n) THEN Ok(VInt(n.val)) ELSE n, vars, <<>>)

float(value, vars) ==
    LET x == IF value.alt = "A" THEN Ok(value.x)
             ELSE IF value.x.alt = "A" THEN Ok(I64AsFloat(value.x.x))
             ELSE LET r == ParseF64(value.x.x)
                  IN IF IsOk(r) THEN r ELSE Err("ParseFailure", <<value.x.x, "float">>)
    IN Outcome(IF IsOk(x) THEN Ok(VFloat(x.val)) ELSE x, vars, <<>>)

\* i64::unsigned_abs
UnsignedAbs(i) == IF i < 0 THEN 0 - i ELSE i
\* usize - usize: with overflow checks the build panics on a negative
\* difference, without them the difference wraps.
UsizeSub(a, b, checks) ==
    IF a >= b THEN Ok(a - b)
    ELSE IF checks THEN Panic("attempt to subtract with overflow")
    ELSE Ok(a - b + UsizeModulus)
\* Iterator::nth: zero-based, None past the end.
IterNth(s, n) == IF n < Len(s) THEN Some(s[n + 1]) ELSE None
\* An nth whose negative index counts back from the last element.
nthFromLast(value, i, vars, checks) ==
    LET at == IF i <= -1 THEN UsizeSub(Len(value), UnsignedAbs(i) + 1, checks) ELSE Ok(i)
    IN IF ~IsOk(at) THEN Outcome(at, vars, <<>>)
       ELSE LET x == IterNth(value, at.val)
            IN Outcome(IF x # None THEN Ok(x[1]) ELSE Err("IndexOutOfRange", <<>>), vars, <<>>)
nth(value, i, vars, checks) ==
    LET at == IF i <= -1 THEN UsizeSub(Len(value), UnsignedAbs(i), checks) ELSE Ok(i)
    IN IF ~IsOk(at) THEN Outcome(at, vars, <<>>)
       ELSE LET x == IterNth(value, at.val)
            IN Outcome(IF x # None THEN Ok(x[1]) ELSE Err("IndexOutOfRange", <<>>), vars, <<>>)

keys(value, vars) ==
    LET KeyAt == [k \in DOMAIN value |-> VString(k)]
    IN Outcome(Ok(VList(MapSeq(KeyAt, SortedKeys(DOMAIN value)))), vars, <<>>)

values(value, vars) ==
    Outcome(Ok(VList(MapSeq(value, SortedKeys(DOMAIN value)))), vars, <<>>)

\* An entries that writes each pair value first.
entriesValueFirst(value, vars) ==
    LET Entry == [k \in DOMAIN value |-> VList(<<value[k], VString(k)>>)]
    IN Outcome(Ok(VList(MapSeq(Entry, SortedKeys(DOMAIN value)))), vars, <<>>)
entries(value, vars) ==
    LET Entry == [k \in DOMAIN value |-> VList(<<VString(k), value[k]>>)]
    IN Outcome(Ok(VList(MapSeq(Entry, SortedKeys(DOMAIN value)))), vars, <<>>)

RECURSIVE CollectEntries(_, _)
CollectEntries(items, acc) ==
    IF items = <<>> THEN Ok(VStructure(acc))
    ELSE LET tuple == TryFromValue(Prim("Vec<Value>"), Head(items))
         IN IF ~IsOk(tuple) THEN tuple
            ELSE IF Len(tuple.val) # 2 THEN Err("MalformedEntry", <<>>)
            ELSE LET k == TryFromValue(Prim("Arc<str>"), tuple.val[1])
                 IN IF ~IsOk(k) THEN k
                    ELSE CollectEntries(Tail(items), Put(acc, k.val, tuple.val[2]))
from_entries(value, vars) == Outcome(CollectEntries(value, EmptyMap), vars, <<>>)

\* What the build and the context decide for one call: whether set_var
\* binds, and whether the build checks integer overflow.
Env(bound, checks) == [bound |-> bound, checks |-> checks]

\* The generated Filter::apply: the filter function on the coerced value,
\* the fields of the Args struct in order and, where declared, the context.
FilterApply(f, value, args, vars, env) ==
    CASE f = "id" -> id(value, vars)
      [] f = "dbg" -> dbg(value, args["msg"], vars)
      [] f = "tee" -> tee(value, args["into"], vars, env.bound)
      [] f = "strip" -> strip(value, vars)
      [] f = "attrs" -> attrs(value, vars)
      [] f = "take" -> take(value, args["key"], vars)
      [] f = "int" -> int(value, vars)
      [] f = "float" -> float(value, vars)
      [] f = "nth" -> nth(value, args["i"], vars, env.checks)
      [] f = "keys" -> keys(value, vars)
      [] f = "values" -> values(value, vars)
      [] f = "entries" -> entries(value, vars)
      [] f = "from_entries" -> from_entries(value, vars)

\* The result of one dynamic call, and whether the filter body ran.
Applied(o, ran) == [result |-> o.result, ctx |-> o.ctx, diag |-> o.diag, ran |-> ran]

\* An adapter that deserializes the arguments before it coerces the value.
FilterDynApplyArgsFirst(f, value, args, vars, env) ==
    LET a == TryDeserialize(ArgsFields(f), args)
    IN IF ~IsOk(a) THEN Applied(Outcome(a, vars, <<>>), FALSE)
       ELSE LET v == TryFromValue(FilterValueType(f), value)
            IN IF ~IsOk(v) THEN Applied(Outcome(v, vars, <<>>), FALSE)
               ELSE Applied(FilterApply(f, v.val, a.val, vars, env), TRUE)

\* An adapter that runs the filter on the declared arguments and only then
\* reports the surplus ones.
FilterDynApplySurplusLast(f, value, args, vars, env) ==
    LET v == TryFromValue(FilterValueType(f), value)
        declared == {ArgsFields(f)[k].name : k \in 1..Len(ArgsFields(f))}
        kept == [n \in (DOMAIN args) \cap declared |-> args[n]]
    IN IF ~IsOk(v) THEN Applied(Outcome(v, vars, <<>>), FALSE)
       ELSE LET a == TryDeserialize(ArgsFields(f), kept)
            IN IF ~IsOk(a) THEN Applied(Outcome(a, vars, <<>>), FALSE)
               ELSE LET o == FilterApply(f, v.val, a.val, vars, env)
                    IN IF kept = args THEN Applied(o, TRUE)
                       ELSE Applied(Outcome(TryDeserialize(ArgsFields(f), args), o.ctx, o.diag),
                                    TRUE)

\* impl<F: Filter> FilterDyn for F: the value is coerced, then the arguments
\* are deserialized, then the filter runs; `?` returns the first failure.
FilterDynApply(f, value, args, vars, env) ==
    LET v == TryFromValue(FilterValueType(f), value)
    IN IF ~IsOk(v) THEN Applied(Outcome(v, vars, <<>>), FALSE)
       ELSE LET a == TryDeserialize(ArgsFields(f), args)
            IN IF ~IsOk(a) THEN Applied(Outcome(a, vars, <<>>), FALSE)
               ELSE Applied(FilterApply(f, v.val, a.val, vars, env), TRUE)

(* ----------------------------------------------------------------- registry *)
\* A build_map! that also lists id.
BuildMapWithId ==
    << <<"id", "id">>, <<"dbg", "dbg">>, <<"tee", "tee">>, <<"strip", "strip">>,
       <<"take", "take">>, <<"attrs", "attrs">>, <<"int", "int">>, <<"float", "float">>,
       <<"nth", "nth">>, <<"keys", "keys">>, <<"values", "values">>,
       <<"entries", "entries">>, <<"from_entries", "from_entries">> >>

\* build_map!: the (name, filter) pairs, in the order written.
BuildMap ==
    << <<"dbg", "dbg">>, <<"tee", "tee">>, <<"strip", "strip">>, <<"take", "take">>,
       <<"attrs", "attrs">>, <<"int", "int">>, <<"float", "float">>, <<"nth", "nth">>,
       <<"keys", "keys">>, <<"values", "values">>, <<"entries", "entries">>,
       <<"from_entries", "from_entries">> >>

\* dispatch_filter, given the table BUILTIN_FILTERS dereferences to.
DispatchFilter(tbl, name, value, args, vars, env) ==
    IF name \in DOMAIN tbl THEN FilterDynApply(tbl[name], value, args, vars, env)
    ELSE Applied(Outcome(Err("UnknownFilter", name), vars, <<>>), FALSE)

(* ------------------------------------------------------------------- inputs *)
Ca == <<"a">>
Cb == <<"b">>
FilterNames == {BuildMap[k][1] : k \in 1..Len(BuildMap)}
\* Names the evaluator may ask for: the registered ones, the filter that is
\* defined but not in build_map!, the empty name and a name nobody defined.
CallNames == FilterNames \cup {"id", "", "nope"}

CoreValues ==
    { VNull, VInt(3), VFloat(39), VString(<<"4", "2">>),
      VList(<<VList(<<VString(Ca), VInt(1)>>)>>),
      VStructure(Ca :> VInt(1)), VElement(1) }
ArgNames == {"into", "key", "i", "msg"}
ArgValues == {VString(Ca), VString(Cb), VInt(0 - 1)}
ArgMaps ==
    UNION {[D -> ArgValues] : D \in {S \in SUBSET ArgNames : Cardinality(S) <= MaxArgs}}
Invocation(name, value, args) == [name |-> name, value |-> value, args |-> args]
CoreCalls == {Invocation(n, x, a) : n \in CallNames, x \in CoreValues, a \in ArgMaps}

\* nth on every list of up to MaxLen items with every i64 index.
NthList(n) == VList([k \in 1..n |-> VInt(k)])
NthCalls ==
    {Invocation("nth", NthList(n), "i" :> VInt(i)) : n \in 0..MaxLen, i \in I64Min..I64Max}

NumberValues ==
    { VInt(I64Min), VInt(I64Max), VInt(0), VInt(0 - 5),
      VFloat(0 - 39), VFloat(5), VFloat(0 - 5), VFloat(10 * I64Max + 15),
      VFloat(10 * I64Min - 15),
      VString(<<"-", "7">>), VString(<<"+", "5">>), VString(<<"a", "b", "c">>),
      VString(<<>>), VString(<<"4", ".", "2">>), VString(<<" ", "4", "2">>),
      VString(<<"9", "9", "9", "9">>), VString(<<"-">>), VString(<<"3", "a">>) }
NumberCalls == {Invocation(n, x, EmptyMap) : n \in {"int", "float"}, x \in NumberValues}

StripValues ==
    { VString(<<" ", " ", "h", "i", " ", " ">>), VString(<<" ">>), VString(<<>>),
      VString(<<"h", " ", "i">>), VString(<<"h", "i", " ">>) }
StripCalls == {Invocation("strip", x, EmptyMap) : x \in StripValues}

Structures ==
    { VStructure(EmptyMap),
      VStructure((Cb :> VInt(1)) @@ (Ca :> VList(<<VInt(2), VNull>>))),
      VStructure((Ca :> VStructure(Cb :> VString(Ca))) @@ (<<"a", "b">> :> VFloat(5))),
      VStructure((<<>> :> VStructure(EmptyMap)) @@ (<<" ">> :> VList(<<>>))
                 @@ (Cb :> VElement(1))) }
\* Lists that are entries of a structure, and lists that are not.
EntryLists ==
    { VList(<<>>),
      VList(<<VList(<<VString(Cb), VInt(1)>>), VList(<<VString(Ca), VNull>>)>>),
      VList(<<VList(<<VString(Ca), VInt(1)>>), VList(<<VString(Ca), VInt(2)>>)>>),
      VList(<<VList(<<VString(Ca), VList(<<VList(<<VString(Cb), VInt(1)>>)>>)>>)>>),
      VList(<<VList(<<VString(Ca)>>)>>),
      VList(<<VList(<<VString(Ca), VInt(1), VInt(2)>>)>>),
      VList(<<VList(<<VInt(1), VInt(2)>>)>>),
      VList(<<VInt(1)>>),
      VList(<<VList(<<VString(Ca), VInt(1)>>), VString(Cb)>>) }
CollectionCalls ==
    {Invocation(n, x, EmptyMap) : n \in {"entries", "keys", "values"}, x \in Structures}
    \cup {Invocation("take", x, "key" :> VString(k)) : x \in Structures, k \in {Ca, Cb}}
    \cup {Invocation("from_entries", x, EmptyMap) : x \in EntryLists}

\* Every invocation the evaluator may issue.
Script == CoreCalls \cup NthCalls \cup NumberCalls \cup StripCalls \cup CollectionCalls

\* Evaluator threads that race on the registry, and what they call.
Racers == 2
RaceScript ==
    { Invocation("strip", VString(<<" ", "a">>), EmptyMap),
      Invocation("nope", VNull, EmptyMap) }

Invocations(which) == IF which = "race" THEN RaceScript ELSE Script

(* ------------------------------------------------------------ state machine *)
VARIABLES
    once,      \* LazyLock state of BUILTIN_FILTERS: incomplete, running, complete
    table,     \* the BTreeMap being collected, then the one BUILTIN_FILTERS holds
    cursor,    \* the next pair of build_map! to collect
    initRuns,  \* how many times the LazyLock closure has been entered
    pc,        \* per thread: idle, force, init, done, panicked
    pending,   \* per thread: the dispatch_filter call in progress, if any
    ctx,       \* per thread: the variables of its ElementContext
    last,      \* per thread: the dispatch_filter call that just returned, if any
    script     \* which invocations the evaluator issues: "any" or "race"
vars == <<once, table, cursor, initRuns, pc, pending, ctx, last, script>>

Threads == DOMAIN pc

Start(threads, calls) ==
    /\ once = "incomplete"
    /\ table = EmptyMap
    /\ cursor = 1
    /\ initRuns = 0
    /\ pc = [t \in threads |-> "idle"]
    /\ pending = [t \in threads |-> None]
    /\ ctx = [t \in threads |-> EmptyMap]
    /\ last = [t \in threads |-> None]
    /\ script = calls

\* One evaluator with its context, issuing any invocation.
Init == Start({1}, "any")
\* Several evaluators, each with its own context, racing on the first use.
InitRace == Start(1..Racers, "race")

\* The evaluator calls dispatch_filter(name, value, args, ctx).
Call(t) ==
    /\ pc[t] = "idle"
    /\ \E c \in Invocations(script) : pending' = [pending EXCEPT ![t] = Some(c)]
    /\ pc' = [pc EXCEPT ![t] = "force"]
    /\ UNCHANGED <<once, table, cursor, initRuns, ctx, last, script>>

\* LazyLock::force, first caller: Once hands the closure to exactly one thread.
ForceBegin(t) ==
    /\ pc[t] = "force"
    /\ once = "incomplete"
    /\ once' = "running"
    /\ initRuns' = initRuns + 1
    /\ table' = EmptyMap
    /\ cursor' = 1
    /\ pc' = [pc EXCEPT ![t] = "init"]
    /\ UNCHANGED <<pending, ctx, last, script>>

\* .into_iter().collect(): one pair of build_map! goes into the BTreeMap.
InitInsert(t) ==
    /\ pc[t] = "init"
    /\ cursor <= Len(BuildMap)
    /\ table' = Put(table, BuildMap[cursor][1], BuildMap[cursor][2])
    /\ cursor' = cursor + 1
    /\ UNCHANGED <<once, initRuns, pc, pending, ctx, last, script>>

\* The closure returns: the map is stored and the Once completes.
InitEnd(t) ==
    /\ pc[t] = "init"
    /\ cursor > Len(BuildMap)
    /\ once' = "complete"
    /\ pc' = [pc EXCEPT ![t] = "force"]
    /\ UNCHANGED <<table, cursor, initRuns, pending, ctx, last, script>>

\* A force that returns to whoever finds the closure already running.
ForceReturnsWhileRunning(state) == state # "incomplete"

\* LazyLock::force returns a reference only once the Once is complete; a
\* caller that finds it running waits.
ForceReturns(state) == state = "complete"

\* What the call does not control: set_var's success matters to tee alone,
\* overflow checking to nth alone.
Envs(c) ==
    IF c.name = "tee" THEN {Env(TRUE, TRUE), Env(FALSE, TRUE)}
    ELSE IF c.name = "nth" THEN {Env(TRUE, TRUE), Env(TRUE, FALSE)}
    ELSE {Env(TRUE, TRUE)}

Returned(c, before, seen, out) == [call |-> c, before |-> before, seen |-> seen, out |-> out]

\* The rest of dispatch_filter on the forced table: the lookup and, on a hit,
\* the dynamic call.  A panic unwinds the thread.
Apply(t) ==
    /\ pc[t] = "force"
    /\ ForceReturns(once)
    /\ \E env \in Envs(pending[t][1]) :
         LET c == pending[t][1]
             out == DispatchFilter(table, c.name, c.value, c.args, ctx[t], env)
         IN /\ last' = [last EXCEPT ![t] = Some(Returned(c, ctx[t], table, out))]
            /\ ctx' = [ctx EXCEPT ![t] = out.ctx]
            /\ pc' = [pc EXCEPT ![t] = IF out.result.res = "Panic" THEN "panicked" ELSE "done"]
    /\ pending' = [pending EXCEPT ![t] = None]
    /\ UNCHANGED <<once, table, cursor, initRuns, script>>

\* The evaluator takes the result and goes on.
Return(t) ==
    /\ pc[t] = "done"
    /\ pc' = [pc EXCEPT ![t] = "idle"]
    /\ last' = [last EXCEPT ![t] = None]
    /\ UNCHANGED <<once, table, cursor, initRuns, pending, ctx, script>>

Next ==
    \/ \E t \in Threads : Call(t)
    \/ \E t \in Threads : ForceBegin(t)
    \/ \E t \in Threads : InitInsert(t)
    \/ \E t \in Threads : InitEnd(t)
    \/ \E t \in Threads : Apply(t)
    \/ \E t \in Threads : Return(t)

Spec == Init /\ [][Next]_vars
SpecRace == InitRace /\ [][Next]_vars

(* ------------------------------------------------------------- the claims *)
\* The calls that have returned (or panicked) and not yet been taken.
Finished == {t \in Threads : last[t] # None}
Rec(t) == last[t][1]

\* The builtin table of the specification: what each filter accepts and the
\* named parameters it declares.
SpecRegistered ==
    {"dbg", "tee", "strip", "take", "attrs", "int", "float", "nth", "keys", "values",
     "entries", "from_entries"}
AllTags == {"Null", "Int", "Float", "String", "List", "Structure", "Element"}
SpecAccepts(n) ==
    CASE n \in {"dbg", "tee"} -> AllTags
      [] n = "strip" -> {"String"}
      [] n = "attrs" -> {"Element"}
      [] n \in {"take", "keys", "values", "entries"} -> {"Structure"}
      [] n \in {"int", "float"} -> {"Int", "Float", "String"}
      [] n \in {"nth", "from_entries"} -> {"List"}
SpecParam(name, tag, required) == [name |-> name, tag |-> tag, required |-> required]
SpecParams(n) ==
    CASE n = "dbg" -> {SpecParam("msg", "String", FALSE)}
      [] n = "tee" -> {SpecParam("into", "String", TRUE)}
      [] n = "take" -> {SpecParam("key", "String", TRUE)}
      [] n = "nth" -> {SpecParam("i", "Int", TRUE)}
      [] OTHER -> {}
SpecParamNames(n) == {p.name : p \in SpecParams(n)}
Surplus(c) == (DOMAIN c.args) \ SpecParamNames(c.name)
MissingParams(c) == {p \in SpecParams(c.name) : p.required /\ p.name \notin DOMAIN c.args}
MistypedParams(c) ==
    {p \in SpecParams(c.name) : p.name \in DOMAIN c.args /\ c.args[p.name].tag # p.tag}
IsEntry(x) == x.tag = "List" /\ Len(x.v) = 2 /\ x.v[1].tag = "String"
ValueCoerces(c) == c.value.tag \in SpecAccepts(c.name)
ValueMatches(c) ==
    /\ ValueCoerces(c)
    /\ c.name = "from_entries" => \A k \in 1..Len(c.value.v) : IsEntry(c.value.v[k])
ArgsMatch(c) == MissingParams(c) = {} /\ MistypedParams(c) = {} /\ Surplus(c) = {}
MatchingShape(c) == c.name \in SpecRegistered /\ ValueMatches(c) /\ ArgsMatch(c)
ValidationErrors == {"UnknownFilter", "TypeMismatch", "MissingArgument", "UnexpectedArguments"}

\* C1 as stated: every registered filter returns Ok on a value and argument
\* map of the matching shape, and every unregistered name (the empty name and
\* `id` included) gets UnknownFilter naming it, whatever else is passed.
C1_MatchingShapeReturnsOk ==
    \A t \in Finished :
        LET c == Rec(t).call
            r == Rec(t).out.result
        IN /\ MatchingShape(c) => IsOk(r)
           /\ c.name \notin SpecRegistered => r = Err("UnknownFilter", c.name)

\* C1 amended: on a matching shape a registered filter is found, its value
\* coerced and its arguments deserialized, so the body runs and no lookup,
\* coercion or argument error comes back; dbg, strip, attrs, take, keys,
\* values, entries and from_entries then return Ok, while tee, int, float and
\* nth may still fail in their body.  An unregistered name gets UnknownFilter
\* naming it and runs nothing.
BodyMayFail == {"tee", "int", "float", "nth"}
C1_MatchingShapeReachesBody ==
    \A t \in Finished :
        LET c == Rec(t).call
            o == Rec(t).out
        IN /\ MatchingShape(c) =>
                /\ o.ran
                /\ ErrKind(o.result) \notin ValidationErrors
                /\ c.name \notin BodyMayFail => IsOk(o.result)
           /\ c.name \notin SpecRegistered =>
                o.result = Err("UnknownFilter", c.name) /\ ~o.ran
C1_Witness ==
    \E t \in Finished :
        /\ Rec(t).call.name = "nth"
        /\ MatchingShape(Rec(t).call)
        /\ IsOk(Rec(t).out.result)

\* C2: with the value accepted, a call that omits a required named argument
\* fails with MissingArgument naming that argument, and a call whose declared
\* arguments are in order but that supplies others fails with
\* UnexpectedArguments listing every surplus name at once (so a filter that
\* declares none rejects every non-empty map).
C2_ArgumentErrorsNameTheArguments ==
    \A t \in Finished :
        LET c == Rec(t).call
            r == Rec(t).out.result
        IN (c.name \in SpecRegistered /\ ValueCoerces(c)) =>
              /\ \A p \in MissingParams(c) : r = Err("MissingArgument", p.name)
              /\ (MissingParams(c) = {} /\ MistypedParams(c) = {} /\ Surplus(c) # {}) =>
                    ErrKind(r) = "UnexpectedArguments" /\ DOMAIN r.val.info = Surplus(c)

\* C3: when the value does not coerce or the argument map does not
\* deserialize, the filter body does not run: the call returns that error,
\* writes nothing and leaves the context as it was before the call.
C3_FailedValidationRunsNothing ==
    \A t \in Finished :
        LET c == Rec(t).call
            o == Rec(t).out
        IN (c.name \in SpecRegistered /\ (~ValueCoerces(c) \/ ~ArgsMatch(c))) =>
              /\ ~o.ran
              /\ IsErr(o.result)
              /\ o.diag = <<>>
              /\ ctx[t] = Rec(t).before
C3_Witness ==
    \E t \in Finished :
        /\ Rec(t).call.name = "tee"
        /\ Rec(t).call.value.tag = "Int"
        /\ DOMAIN Rec(t).call.args = {"into", "msg"}
        /\ Rec(t).call.args["into"].tag = "String"
        /\ IsErr(Rec(t).out.result)
        /\ ctx[t] = Rec(t).before

\* The nth calls on a list with an integer index and nothing else.
IsNthCall(c) ==
    /\ c.name = "nth"
    /\ c.value.tag = "List"
    /\ DOMAIN c.args = {"i"}
    /\ c.args["i"].tag = "Int"

\* C4: nth on a list L returns L[i] for 0 <= i < len(L), L[len(L) + i] for
\* -len(L) <= i <= -1, and fails with the out-of-range error, returning no
\* value, for i >= len(L).
C4_NthSelectsTheIndexedElement ==
    \A t \in Finished :
        LET c == Rec(t).call
            r == Rec(t).out.result
            L == c.value.v
            i == c.args["i"].v
        IN IsNthCall(c) =>
              /\ (0 <= i /\ i < Len(L)) => r = Ok(L[i + 1])
              /\ (0 - Len(L) <= i /\ i <= 0 - 1) => r = Ok(L[Len(L) + i + 1])
              /\ i >= Len(L) => ErrKind(r) = "IndexOutOfRange"
C4_Witness ==
    \E t \in Finished :
        /\ IsNthCall(Rec(t).call)
        /\ Len(Rec(t).call.value.v) = 3
        /\ Rec(t).call.args["i"].v = 0 - 1
        /\ Rec(t).out.result = Ok(Rec(t).call.value.v[3])

\* C5: nth with an index more negative than -len(L), down to the least i64
\* and on the empty list too, returns an error: it neither panics nor
\* selects an element.
C5_NthBelowRangeIsAnError ==
    \A t \in Finished :
        LET c == Rec(t).call
        IN (IsNthCall(c) /\ c.args["i"].v < 0 - Len(c.value.v)) => IsErr(Rec(t).out.result)

\* C6: entries never fails on a structure, from_entries never fails on what
\* entries returned, and from_entries(entries(s)) is s again, for the empty
\* structure and for structures that hold lists and structures.
C6_FromEntriesInvertsEntries ==
    \A t \in Finished :
        LET c == Rec(t).call
            r == Rec(t).out.result
        IN (c.name = "entries" /\ c.value.tag = "Structure" /\ DOMAIN c.args = {}) =>
              /\ IsOk(r)
              /\ DispatchFilter(table, "from_entries", r.val, EmptyMap, ctx[t],
                                Env(TRUE, TRUE)).result = Ok(c.value)
C6_Witness ==
    \E t \in Finished :
        /\ Rec(t).call.name = "entries"
        /\ Rec(t).call.value.tag = "Structure"
        /\ \E k \in DOMAIN Rec(t).call.value.v : Rec(t).call.value.v[k].tag = "Structure"
        /\ IsOk(Rec(t).out.result)
        /\ Len(Rec(t).out.result.val.v) = 2

\* Text that is a base-10 integer: an optional sign and one or more digits.
IsBase10(s) ==
    LET body == IF s # <<>> /\ Head(s) \in {"+", "-"} THEN Tail(s) ELSE s
    IN body # <<>> /\ \A k \in 1..Len(body) : body[k] \in Digits

\* C7: int returns an Integer input unchanged (it goes through neither the
\* Float cast nor the parse), parses a String input only, fails with a parse
\* failure naming the text when the text is not a base-10 integer, and
\* returns an Integer or an error whatever it is given.
C7_IntTriesIntegerFirst ==
    \A t \in Finished :
        LET c == Rec(t).call
            r == Rec(t).out.result
        IN (c.name = "int" /\ DOMAIN c.args = {}) =>
              /\ c.value.tag = "Int" => r = Ok(c.value)
              /\ (c.value.tag = "String" /\ ~IsBase10(c.value.v)) =>
                    ErrKind(r) = "ParseFailure" /\ r.val.info[1] = c.value.v
              /\ ErrKind(r) = "ParseFailure" => c.value.tag = "String"
              /\ IsOk(r) \/ IsErr(r)
              /\ IsOk(r) => r.val.tag = "Int"
C7_Witness ==
    \E t \in Finished :
        /\ Rec(t).call.name = "int"
        /\ Rec(t).call.value = VInt(I64Min)
        /\ Rec(t).out.result = Ok(VInt(I64Min))

\* C8: a successful tee(value, into = n) binds n to the value, leaves every
\* other binding as it was and returns the value; a dispatch of any other
\* filter, and any dispatch that fails, leaves the context unchanged.
C8_OnlyTeeChangesTheContext ==
    \A t \in Finished :
        LET c == Rec(t).call
            r == Rec(t).out.result
        IN IF c.name = "tee" /\ IsOk(r)
           THEN /\ r = Ok(c.value)
                /\ ctx[t] = Put(Rec(t).before, c.args["into"].v, c.value)
           ELSE ctx[t] = Rec(t).before
C8_Witness ==
    \E t \in Finished :
        /\ Rec(t).call.name = "tee"
        /\ IsOk(Rec(t).out.result)
        /\ Rec(t).call.args["into"].v = Ca
        /\ Cb \in DOMAIN Rec(t).before
        /\ Ca \notin DOMAIN Rec(t).before
        /\ DOMAIN ctx[t] = {Ca, Cb}

\* C9: the registry is built once and then left alone: whatever the
\* interleaving, the construction body is entered at most once, every
\* dispatch that got past the lookup saw the full table (never an empty or
\* partly filled one), and once built the table holds each builtin name,
\* once, mapped to its filter.
FullTable == [n \in SpecRegistered |-> n]
C9_RegistryBuiltOnce ==
    /\ initRuns <= 1
    /\ \A t \in Finished : Rec(t).seen = FullTable
    /\ once = "complete" =>
          /\ table = FullTable
          /\ Cardinality(DOMAIN table) = Len(BuildMap)
C9_Witness ==
    /\ initRuns = 1
    /\ \A t \in Threads : t \in Finished /\ Rec(t).seen = FullTable

\* C10: one dispatch reports the earliest fault in the order lookup, primary
\* value, declared parameters, surplus arguments: an unregistered name hides
\* everything, a wrongly typed value hides every argument error, and a
\* missing or wrongly typed declared argument hides the surplus ones.
SpecExpected(n) ==
    CASE n = "strip" -> "Arc<str>"
      [] n = "attrs" -> "ElementRef"
      [] n \in {"take", "keys", "values", "entries"} -> "Structure"
      [] n \in {"int", "float"} -> "Arc<str>"
      [] n \in {"nth", "from_entries"} -> "Vec<Value>"
      [] OTHER -> "Value"
C10_EarliestFaultIsReported ==
    \A t \in Finished :
        LET c == Rec(t).call
            r == Rec(t).out.result
        IN IF c.name \notin SpecRegistered THEN ErrKind(r) = "UnknownFilter"
           ELSE IF ~ValueCoerces(c)
                THEN r = Err("TypeMismatch", <<SpecExpected(c.name), c.value.tag>>)
           ELSE IF MissingParams(c) # {} THEN ErrKind(r) = "MissingArgument"
           ELSE IF MistypedParams(c) # {}
                THEN /\ ErrKind(r) = "TypeMismatch"
                     /\ \E p \in MistypedParams(c) : r.val.info[2] = c.args[p.name].tag
           ELSE Surplus(c) # {} =>
                   ErrKind(r) = "UnexpectedArguments" /\ DOMAIN r.val.info = Surplus(c)
C10_Witness ==
    \E t \in Finished :
        /\ Rec(t).call.name = "take"
        /\ Rec(t).call.value.tag = "Int"
        /\ DOMAIN Rec(t).call.args = {"msg", "into"}
        /\ Rec(t).out.result = Err("TypeMismatch", <<"Structure", "Int">>)

====
